---- MODULE Spec2Model ----
(***************************************************************************)
(* glancr: interactive file finder.  Model of the search-and-preview       *)
(* pipeline: App state (src/main.rs), path ignore rules, directory walk,   *)
(* the dual-mode filter and the preview builder (src/preview.rs).          *)
(*                                                                         *)
(* Text is modelled as sequences of one-character strings, so that         *)
(* lower-casing, substring containment, fuzzy subsequence matching and     *)
(* slicing are computed, not assumed.  File contents are run-length        *)
(* encoded: a content is a sequence of runs [line, n] meaning the line     *)
(* repeated n times, each line terminated by a newline byte.               *)
(***************************************************************************)
EXTENDS Integers, Sequences, FiniteSets, TLC

VARIABLES files, filtered_files, selected_index, input, search_mode,
          file_filter, config, show_help, git, pc, preview, opened,
          discovery, available_height, scroll

vars == <<files, filtered_files, selected_index, input, search_mode,
          file_filter, config, show_help, git, pc, preview, opened,
          discovery, available_height, scroll>>

(***************************************************************************)
(* Bounds of the model.                                                    *)
(***************************************************************************)
MaxQueryLen == 2

(***************************************************************************)
(* Program constants.                                                      *)
(***************************************************************************)
MAX_FILE_SIZE == 524288
MAX_LINES_TO_FORMAT == 1000
U16 == 65536
BINARY_HEAD == 1024
NO_SCROLL_BELOW == 15
SCROLL_CONTEXT == 10

NUL == "NUL"

\* a character outside ASCII (e with acute accent), two bytes in UTF-8
EACUTE == "U+00E9"

\* char::len_utf8
len_utf8(c) == IF c = EACUTE THEN 2 ELSE 1

(***************************************************************************)
(* Option values.                                                          *)
(***************************************************************************)
None == [some |-> FALSE, v |-> 0]
Some(x) == [some |-> TRUE, v |-> x]

Min(a, b) == IF a < b THEN a ELSE b
SatSub(a, b) == IF a > b THEN a - b ELSE 0

(***************************************************************************)
(* String helpers.                                                         *)
(***************************************************************************)
UpperChars == <<"A", "B", "C", "D", "E", "F", "G", "H", "I", "J", "K", "L", "M",
                "N", "O", "P", "Q", "R", "S", "T", "U", "V", "W", "X", "Y", "Z">>
LowerChars == <<"a", "b", "c", "d", "e", "f", "g", "h", "i", "j", "k", "l", "m",
                "n", "o", "p", "q", "r", "s", "t", "u", "v", "w", "x", "y", "z">>

IsUpper(c) == \E i \in 1..26 : UpperChars[i] = c

ToLowerChar(c) ==
    IF IsUpper(c) THEN LowerChars[CHOOSE i \in 1..26 : UpperChars[i] = c] ELSE c

to_lowercase(s) == [i \in 1..Len(s) |-> ToLowerChar(s[i])]

\* str::contains: sub occurs in s as a contiguous substring
Contains(s, sub) ==
    \E i \in 0..(Len(s) - Len(sub)) : SubSeq(s, i + 1, i + Len(sub)) = sub

\* 0-based byte offset of the first occurrence of sub in s, or -1
FindFirst(s, sub) ==
    IF Contains(s, sub)
    THEN CHOOSE i \in 0..(Len(s) - Len(sub)) :
            /\ SubSeq(s, i + 1, i + Len(sub)) = sub
            /\ \A j \in 0..(i - 1) : SubSeq(s, j + 1, j + Len(sub)) # sub
    ELSE -1

\* index of the last "/" of s, 0 when there is none
LastSlash(s) ==
    IF \E i \in 1..Len(s) : s[i] = "/"
    THEN CHOOSE i \in 1..Len(s) : s[i] = "/" /\ \A j \in (i + 1)..Len(s) : s[j] # "/"
    ELSE 0

RECURSIVE StripTrailingSlash(_)
StripTrailingSlash(s) ==
    IF Len(s) > 1 /\ s[Len(s)] = "/" THEN StripTrailingSlash(SubSeq(s, 1, Len(s) - 1))
    ELSE s

\* Path::file_name: the final component of the path
file_name(path) ==
    LET p == StripTrailingSlash(path)
    IN SubSeq(p, LastSlash(p) + 1, Len(p))

\* the path the operating system resolves: "./x" and "x/" name the node "x"
Normalize(path) ==
    LET p == StripTrailingSlash(path)
    IN IF Len(p) >= 2 /\ p[1] = "." /\ p[2] = "/" THEN SubSeq(p, 3, Len(p)) ELSE p

(***************************************************************************)
(* Configuration (src/config.rs).                                          *)
(***************************************************************************)
default_command == "cursor"

default_ignored_dirs == <<
    <<"/", ".", "g", "i", "t", "/">>,
    <<"/", "n", "o", "d", "e", "_", "m", "o", "d", "u", "l", "e", "s", "/">>,
    <<"/", "t", "a", "r", "g", "e", "t", "/">>,
    <<"/", "d", "i", "s", "t", "/">>,
    <<"/", "b", "u", "i", "l", "d", "/">>,
    <<"/", ".", "i", "d", "e", "a", "/">>,
    <<"/", ".", "v", "s", "c", "o", "d", "e", "/">>,
    <<"/", "v", "e", "n", "d", "o", "r", "/">>,
    <<"/", ".", "n", "e", "x", "t", "/">>,
    <<"/", "c", "o", "v", "e", "r", "a", "g", "e", "/">>,
    <<"/", "y", "a", "r", "n", ".", "l", "o", "c", "k">>,
    <<"/", ".", "y", "a", "r", "n", "/">> >>

default_ignored_patterns == <<
    <<".", "l", "o", "c", "k">>,
    <<".", "l", "o", "g">>,
    <<".", "m", "a", "p">>,
    <<".", "m", "i", "n", ".", "j", "s">>,
    <<".", "m", "i", "n", ".", "c", "s", "s">>,
    <<".", "b", "u", "n", "d", "l", "e", ".">>,
    <<".", "c", "a", "c", "h", "e">> >>

Config_default ==
    [open_command |-> default_command,
     ignored_dirs |-> default_ignored_dirs,
     ignored_patterns |-> default_ignored_patterns]

\* a ~/.glancr.yml that names its own lists: /src/ as an ignored directory and
\* .rs as an ignored filename pattern, and none of the defaults
Config_custom ==
    [open_command |-> "vim",
     ignored_dirs |-> << <<"/", "s", "r", "c", "/">> >>,
     ignored_patterns |-> << <<".", "r", "s">> >>]

\* Config::load: the defaults when the file is missing or does not parse,
\* otherwise what the file says
Config_load == {Config_default, Config_custom}

(***************************************************************************)
(* Path ignore rules (src/main.rs, should_ignore_path).  The two lists     *)
(* are the arrays the function declares locally.                           *)
(***************************************************************************)
ignored_dirs == <<
    <<"/", ".", "g", "i", "t", "/">>,
    <<"/", "n", "o", "d", "e", "_", "m", "o", "d", "u", "l", "e", "s", "/">>,
    <<"/", "t", "a", "r", "g", "e", "t", "/">>,
    <<"/", "d", "i", "s", "t", "/">>,
    <<"/", "b", "u", "i", "l", "d", "/">>,
    <<"/", ".", "i", "d", "e", "a", "/">>,
    <<"/", ".", "v", "s", "c", "o", "d", "e", "/">>,
    <<"/", "v", "e", "n", "d", "o", "r", "/">>,
    <<"/", ".", "n", "e", "x", "t", "/">>,
    <<"/", "c", "o", "v", "e", "r", "a", "g", "e", "/">>,
    <<"/", "y", "a", "r", "n", ".", "l", "o", "c", "k">>,
    <<"/", ".", "y", "a", "r", "n", "/">> >>

ignored_patterns == <<
    <<".", "l", "o", "c", "k">>,
    <<".", "l", "o", "g">>,
    <<".", "m", "a", "p">>,
    <<".", "m", "i", "n", ".", "j", "s">>,
    <<".", "m", "i", "n", ".", "c", "s", "s">>,
    <<".", "b", "u", "n", "d", "l", "e", ".">>,
    <<".", "c", "a", "c", "h", "e">> >>

AnyContained(s, list) == \E k \in 1..Len(list) : Contains(s, list[k])

should_ignore_path(path) ==
    LET path_str == to_lowercase(path)
        file_name_lower == to_lowercase(file_name(path))
    IN \/ AnyContained(path_str, ignored_dirs)
       \/ AnyContained(file_name_lower, ignored_patterns)

(***************************************************************************)
(* The file system the program runs in.  A node is what a path resolves    *)
(* to; a content is run-length encoded.                                    *)
(***************************************************************************)
Run(line, n) == [line |-> line, n |-> n]

\* four-line source file whose third line is the only one holding "a"
Content_main == << Run(<<"b">>, 2), Run(<<"a", "b">>, 1), Run(<<"b">>, 1) >>
Content_small == << Run(<<"a">>, 1) >>
\* a NUL as the very first byte
Content_img == << Run(<<NUL, "a">>, 1), Run(<<"a">>, 1) >>
\* 65537 lines in 131074 bytes: below the size threshold, above the line cap
Content_long == << Run(<<"b">>, 65536), Run(<<"a">>, 1) >>
\* 1502 lines in 3006 bytes: a non-ASCII character on the first line, the
\* only "a" on the last line, beyond the line cap
Content_notes == << Run(<<"b", EACUTE>>, 1), Run(<<"b">>, 1500), Run(<<"a">>, 1) >>
\* 600027 lines in 1200057 bytes: above the size threshold; the only "ba" is
\* on the last line
Content_big == << Run(<<"b">>, 20), Run(<<"a">>, 1), Run(<<"b">>, 3),
                  Run(<<"a", "b">>, 2), Run(<<"b">>, 600000),
                  Run(<<"b", "a">>, 1) >>

Node(path, ftype, readable, content) ==
    [path |-> path, ftype |-> ftype, readable |-> readable, content |-> content]

Nodes == <<
    Node(<<"s", "r", "c">>, "dir", TRUE, << >>),
    Node(<<"s", "r", "c", "/", "m", "a", "i", "n", ".", "r", "s">>, "file", TRUE, Content_main),
    Node(<<"n", "o", "d", "e", "_", "m", "o", "d", "u", "l", "e", "s", "/", "a", ".", "j", "s">>, "file", TRUE, Content_small),
    Node(<<"C", "a", "r", "g", "o", ".", "l", "o", "c", "k">>, "file", TRUE, Content_small),
    Node(<<"i", "m", "g", ".", "r", "s">>, "file", TRUE, Content_img),
    Node(<<"l", "o", "n", "g", ".", "t", "x", "t">>, "file", TRUE, Content_long),
    Node(<<"b", "i", "g", ".", "t", "x", "t">>, "file", TRUE, Content_big),
    Node(<<"p", "r", "i", "v", ".", "t", "x", "t">>, "file", FALSE, Content_small),
    Node(<<"s", "e", "c", "r", "e", "t", ".", "t", "x", "t">>, "file", TRUE, Content_small),
    Node(<<"d", "o", "c", "s">>, "dir", TRUE, << >>),
    Node(<<"n", "o", "t", "e", "s", ".", "t", "x", "t">>, "file", TRUE, Content_notes) >>

Exists(path) == \E k \in 1..Len(Nodes) : Nodes[k].path = Normalize(path)

NodeOf(path) == Nodes[CHOOSE k \in 1..Len(Nodes) : Nodes[k].path = Normalize(path)]

RECURSIVE TotalLines(_)
TotalLines(content) ==
    IF content = << >> THEN 0 ELSE Head(content).n + TotalLines(Tail(content))

\* str::len: the bytes of a text
RECURSIVE str_len(_)
str_len(text) ==
    IF text = << >> THEN 0 ELSE len_utf8(Head(text)) + str_len(Tail(text))

\* bytes of the content: every line and its newline
RECURSIVE ByteLen(_)
ByteLen(content) ==
    IF content = << >> THEN 0
    ELSE Head(content).n * (str_len(Head(content).line) + 1) + ByteLen(Tail(content))

\* std::fs::metadata(path): None when the path does not resolve, else the length
metadata_len(path) ==
    IF ~Exists(path) THEN None
    ELSE IF NodeOf(path).ftype = "dir" THEN Some(0)
    ELSE Some(ByteLen(NodeOf(path).content))

\* File::open / read succeed on a readable regular file
CanRead(path) ==
    Exists(path) /\ NodeOf(path).ftype = "file" /\ NodeOf(path).readable

\* byte offset at which run k of the content starts
RECURSIVE RunStart(_, _)
RunStart(content, k) ==
    IF k = 1 THEN 0
    ELSE RunStart(content, k - 1)
         + content[k - 1].n * (str_len(content[k - 1].line) + 1)

\* is_binary_file: a NUL among the first 1024 bytes read; false when the file
\* cannot be opened or read
is_binary_file(path) ==
    /\ CanRead(path)
    /\ LET content == NodeOf(path).content
       IN \E k \in 1..Len(content) :
            \E p \in 1..Len(content[k].line) :
               /\ content[k].line[p] = NUL
               /\ RunStart(content, k) + str_len(SubSeq(content[k].line, 1, p - 1))
                  < BINARY_HEAD

(***************************************************************************)
(* The directory walk (WalkBuilder::new(".").hidden(false).git_ignore(true)*)
(* ): the entries in the order the walker meets them.  An entry that       *)
(* errors carries ok = FALSE; an entry excluded by a version-control       *)
(* ignore file is never yielded.                                           *)
(***************************************************************************)
Entry(path, ok, gitignored) == [path |-> path, ok |-> ok, gitignored |-> gitignored]

Tree == <<
    Entry(<<".", "/", "s", "r", "c">>, TRUE, FALSE),
    Entry(<<".", "/", "s", "r", "c", "/", "m", "a", "i", "n", ".", "r", "s">>, TRUE, FALSE),
    Entry(<<".", "/", "n", "o", "d", "e", "_", "m", "o", "d", "u", "l", "e", "s", "/", "a", ".", "j", "s">>, TRUE, FALSE),
    Entry(<<".", "/", "C", "a", "r", "g", "o", ".", "l", "o", "c", "k">>, TRUE, FALSE),
    Entry(<<".", "/", "d", "e", "n", "i", "e", "d">>, FALSE, FALSE),
    Entry(<<".", "/", "i", "m", "g", ".", "r", "s">>, TRUE, FALSE),
    Entry(<<".", "/", "l", "o", "n", "g", ".", "t", "x", "t">>, TRUE, FALSE),
    Entry(<<".", "/", "s", "e", "c", "r", "e", "t", ".", "t", "x", "t">>, TRUE, TRUE),
    Entry(<<".", "/", "b", "i", "g", ".", "t", "x", "t">>, TRUE, FALSE),
    Entry(<<".", "/", "p", "r", "i", "v", ".", "t", "x", "t">>, TRUE, FALSE),
    Entry(<<".", "/", "d", "o", "c", "s">>, TRUE, FALSE),
    Entry(<<".", "/", "n", "o", "t", "e", "s", ".", "t", "x", "t">>, TRUE, FALSE) >>

\* what the iterator built by WalkBuilder yields: Ok entries and Err entries,
\* without the entries the ignore files exclude
RECURSIVE SelectSeq2(_, _)
SelectSeq2(s, keep) ==
    IF s = << >> THEN << >>
    ELSE IF keep[1] THEN <<Head(s)>> \o SelectSeq2(Tail(s), Tail(keep))
    ELSE SelectSeq2(Tail(s), Tail(keep))

WalkBuilder_build ==
    SelectSeq2(Tree, [k \in 1..Len(Tree) |-> ~Tree[k].gitignored])

is_file(path) == Exists(path) /\ NodeOf(path).ftype = "file"

\* variant: the closure without the binary test
WalkKeeps_nobinary(e) ==
    /\ e.ok
    /\ is_file(e.path)
    /\ ~should_ignore_path(e.path)

\* the filter closure of the walk (main.rs 156-165)
WalkKeeps(e) ==
    /\ e.ok
    /\ is_file(e.path)
    /\ ~should_ignore_path(e.path)
    /\ ~is_binary_file(e.path)

\* FileFilter::All arm of filter_files: the kept entries' paths, in walk order
walk_files ==
    LET it == WalkBuilder_build
        kept == SelectSeq2(it, [k \in 1..Len(it) |-> WalkKeeps(it[k])])
    IN [k \in 1..Len(kept) |-> kept[k].path]

(***************************************************************************)
(* Queries and the two matchers.  A query is a sequence over QueryChars;   *)
(* over this alphabet a regular expression is a concatenation of literals  *)
(* and groups, it compiles exactly when its groups are balanced, and it    *)
(* matches a line exactly when its literals, in order, occur contiguously. *)
(***************************************************************************)
QueryChars == {"a", "b", "(", ")", EACUTE}

\* nesting depth after reading q from depth d, -1 once a group closes unopened
RECURSIVE GroupDepth(_, _)
GroupDepth(q, d) ==
    IF d < 0 THEN -1
    ELSE IF q = << >> THEN d
    ELSE IF Head(q) = "(" THEN GroupDepth(Tail(q), d + 1)
    ELSE IF Head(q) = ")" THEN GroupDepth(Tail(q), d - 1)
    ELSE GroupDepth(Tail(q), d)

RECURSIVE Literals(_)
Literals(q) ==
    IF q = << >> THEN << >>
    ELSE IF Head(q) \in {"(", ")"} THEN Literals(Tail(q))
    ELSE <<Head(q)>> \o Literals(Tail(q))

\* RegexMatcher::new(query).ok(): None for a pattern that does not compile
RegexMatcher_new(query) ==
    IF GroupDepth(query, 0) = 0 THEN Some(Literals(query)) ELSE None

\* Matcher::is_match on the bytes of one line
is_match(pat, line) == Contains(line, pat)

\* Matcher::find on one text: the first match as start..end, counted in
\* characters (the byte offsets follow by len_utf8)
find(pat, text) ==
    IF Contains(text, pat)
    THEN Some([start |-> FindFirst(text, pat), end |-> FindFirst(text, pat) + Len(pat)])
    ELSE None

\* line number (1-based, u64) of the first matching line of a content, for a
\* searcher built with BinaryDetection::quit(0): the search ends at a NUL
RECURSIVE SearchLines(_, _, _)
SearchLines(content, pat, base) ==
    IF content = << >> THEN None
    ELSE IF \E p \in 1..Len(Head(content).line) : Head(content).line[p] = NUL THEN None
    ELSE IF is_match(pat, Head(content).line) THEN Some(base + 1)
    ELSE SearchLines(Tail(content), pat, base + Head(content).n)

\* Searcher::search_path with a sink that stops at the first match: the line
\* number handed to the sink, None when the sink was never called (no match,
\* or the file could not be opened and search_path returned Err)
search_path(pat, path) ==
    IF CanRead(path) THEN SearchLines(NodeOf(path).content, pat, 0) ELSE None

RECURSIVE IsSubsequence(_, _)
IsSubsequence(pattern, choice) ==
    IF pattern = << >> THEN TRUE
    ELSE IF choice = << >> THEN FALSE
    ELSE IF Head(pattern) = Head(choice) THEN IsSubsequence(Tail(pattern), Tail(choice))
    ELSE IsSubsequence(pattern, Tail(choice))

\* SkimMatcherV2::default().fuzzy_match(choice, pattern).is_some(): the pattern's
\* characters occur in the choice in order; smart case (case is ignored unless
\* the pattern has an upper-case character)
fuzzy_match(choice, pattern) ==
    IF \E i \in 1..Len(pattern) : IsUpper(pattern[i])
    THEN IsSubsequence(pattern, choice)
    ELSE IsSubsequence(pattern, to_lowercase(choice))

RECURSIVE Reverse(_)
Reverse(s) == IF s = << >> THEN << >> ELSE Reverse(Tail(s)) \o << Head(s) >>

\* variant: the matches come out best-first instead of in base-set order
filter_by_filename_reversed(fs, query) ==
    Reverse(SelectSeq2(fs, [k \in 1..Len(fs) |-> fuzzy_match(fs[k], query)]))

filter_by_filename(fs, query) ==
    SelectSeq2(fs, [k \in 1..Len(fs) |-> fuzzy_match(fs[k], query)])

\* variant: a pattern that does not compile leaves the list as it is
filter_by_contents_keep(fs, query) ==
    LET regex_matcher == RegexMatcher_new(query)
    IN IF regex_matcher.some
       THEN SelectSeq2(fs, [k \in 1..Len(fs) |-> search_path(regex_matcher.v, fs[k]).some])
       ELSE fs

filter_by_contents(fs, query) ==
    LET regex_matcher == RegexMatcher_new(query)
    IN IF regex_matcher.some
       THEN SelectSeq2(fs, [k \in 1..Len(fs) |-> search_path(regex_matcher.v, fs[k]).some])
       ELSE << >>

(***************************************************************************)
(* Version control: what `git status --porcelain` does when run.           *)
(***************************************************************************)
GitOutput(available, stdout) == [available |-> available, stdout |-> stdout]

Git_ok == GitOutput(TRUE, <<
    <<" ", "M", " ", "s", "r", "c", "/", "m", "a", "i", "n", ".", "r", "s">>,
    <<"?", "?", " ", "i", "m", "g", ".", "r", "s">>,
    <<" ", "D", " ", "g", "o", "n", "e", ".", "r", "s">>,
    <<"?", "?", " ", "d", "o", "c", "s", "/">>,
    <<" ", "M", " ", "C", "a", "r", "g", "o", ".", "l", "o", "c", "k">>,
    <<" ", "M", " ", "n", "o", "t", "e", "s", ".", "t", "x", "t">> >>)

\* the command cannot be spawned
Git_unavailable == GitOutput(FALSE, << >>)

\* a line of fewer than three characters in the output
Git_short == GitOutput(TRUE, <<
    <<" ", "M", " ", "s", "r", "c", "/", "m", "a", "i", "n", ".", "r", "s">>,
    <<"?", "?">> >>)

GitEnvs == {Git_ok, Git_unavailable, Git_short}

\* str::trim().is_empty() of the two status characters
StatusBlank(line) == line[1] = " " /\ line[2] = " "

\* get_dirty_files panics when the command cannot be run (unwrap_or_else) and
\* when a line is too short for &line[0..2] or &line[3..]
get_dirty_files_panics(g) ==
    \/ ~g.available
    \/ \E k \in 1..Len(g.stdout) : Len(g.stdout[k]) < 3

get_dirty_files(g) ==
    LET kept == SelectSeq2(g.stdout, [k \in 1..Len(g.stdout) |-> ~StatusBlank(g.stdout[k])])
    IN [k \in 1..Len(kept) |-> SubSeq(kept[k], 4, Len(kept[k]))]

(***************************************************************************)
(* The preview (src/preview.rs).  A Text is a sequence of line runs: n     *)
(* consecutive lines built the same way.  kind "raw" is a Text::raw line,  *)
(* "warning" the large-file header, "notice" the truncation notice, and    *)
(* "numbered" a file line: its line-number span (numbers first, first+1,   *)
(* ...) followed by the spans listed.                                      *)
(***************************************************************************)
Span(text, style) == [text |-> text, style |-> style]

TLine(kind, msg, first, n, spans) ==
    [kind |-> kind, msg |-> msg, first |-> first, n |-> n, spans |-> spans]

Text_raw(msg) == IF msg = "" THEN << >> ELSE << TLine("raw", msg, 0, 1, << >>) >>

Preview(text, scroll_to) == [text |-> text, scroll_to |-> scroll_to]

\* lines.iter().take(cap).enumerate(): the first cap lines with their 1-based
\* numbers, as runs [line, first, n]
RECURSIVE TakeNumbered(_, _, _)
TakeNumbered(content, base, cap) ==
    IF content = << >> \/ cap = 0 THEN << >>
    ELSE LET r == Head(content)
             k == Min(r.n, cap)
         IN << [line |-> r.line, first |-> base + 1, n |-> k] >>
            \o TakeNumbered(Tail(content), base + r.n, cap - k)

\* HighlightLines::highlight_line with the plain-text grammar: one range
\* holding the line, no range for an empty line
highlight_line(line) == IF line = << >> THEN << >> ELSE << line >>

\* the overlay slices the range one byte at a time, text[idx..idx + 1] for
\* every byte offset idx of the match (preview.rs 123-140): a slice that does
\* not end on a character boundary panics, so a match holding a character of
\* more than one byte panics
RangeSpans_panics(text, query, mode) ==
    LET regex_matcher == IF query # << >> /\ mode = "Contents"
                         THEN RegexMatcher_new(query) ELSE None
        m == IF regex_matcher.some THEN find(regex_matcher.v, text) ELSE None
    IN /\ m.some
       /\ \E i \in (m.v.start + 1)..m.v.end : len_utf8(text[i]) > 1

\* the spans pushed for one highlighted range (preview.rs 117-156), when no
\* slice panics: every matched character is then one byte
RangeSpans(text, query, mode) ==
    LET regex_matcher == IF query # << >> /\ mode = "Contents"
                         THEN RegexMatcher_new(query) ELSE None
        m == IF regex_matcher.some THEN find(regex_matcher.v, text) ELSE None
    IN IF m.some
       THEN LET s == m.v.start
                e == m.v.end
                last_idx == IF s < e THEN e ELSE 0
            IN (IF s > 0 /\ s < e THEN << Span(SubSeq(text, 1, s), "fg") >> ELSE << >>)
               \o [i \in 1..(e - s) |-> Span(SubSeq(text, s + i, s + i), "fg_match")]
               \o (IF last_idx < Len(text)
                   THEN << Span(SubSeq(text, last_idx + 1, Len(text)), "fg") >>
                   ELSE << >>)
       ELSE << Span(text, "fg") >>

RECURSIVE ConcatAll(_)
ConcatAll(ss) == IF ss = << >> THEN << >> ELSE Head(ss) \o ConcatAll(Tail(ss))

LineSpans(line, query, mode) ==
    LET ranges == highlight_line(line)
    IN ConcatAll([k \in 1..Len(ranges) |-> RangeSpans(ranges[k], query, mode)])

\* the two banners, without their leading warning sign
truncation_notice == "File truncated - showing first 1000 lines only"
large_file_warning ==
    "Large file detected - showing plain text without syntax highlighting"

\* variant: only the line number is styled, a matching line is not emphasized
LargeLineSpans_plain(line, query, mode) == << Span(line, "raw") >>

\* get_large_file_preview: the streamed lines, whole-line match highlight
LargeLineSpans(line, query, mode) ==
    LET regex_matcher == IF query # << >> /\ mode = "Contents"
                         THEN RegexMatcher_new(query) ELSE None
    IN IF regex_matcher.some /\ is_match(regex_matcher.v, line)
       THEN << Span(line, "line_match") >>
       ELSE << Span(line, "raw") >>

get_large_file_preview(path, query, mode) ==
    IF ~CanRead(path) THEN Preview(Text_raw("Unable to read file"), None)
    ELSE LET taken == TakeNumbered(NodeOf(path).content, 0, MAX_LINES_TO_FORMAT)
             body == [k \in 1..Len(taken) |->
                        TLine("numbered", "", taken[k].first, taken[k].n,
                              LargeLineSpans(taken[k].line, query, mode))]
             hits == {k \in 1..Len(body) : body[k].spans[1].style = "line_match"}
             first_match_line ==
                 IF hits = {} THEN None
                 ELSE Some(body[CHOOSE k \in hits : \A j \in hits : k <= j].first % U16)
         IN Preview(<< TLine("warning", large_file_warning, 0, 1, << >>) >> \o body,
                    first_match_line)

\* get_file_preview panics when the overlay of a rendered line does
get_file_preview_panics(path, query, mode) ==
    LET meta == metadata_len(path)
    IN /\ meta.some
       /\ meta.v <= MAX_FILE_SIZE
       /\ CanRead(path)
       /\ LET taken == TakeNumbered(NodeOf(path).content, 0, MAX_LINES_TO_FORMAT)
          IN \E k \in 1..Len(taken) :
               \E r \in 1..Len(highlight_line(taken[k].line)) :
                  RangeSpans_panics(highlight_line(taken[k].line)[r], query, mode)

get_file_preview(path, query, mode) ==
    LET meta == metadata_len(path)
    IN IF ~meta.some THEN Preview(Text_raw("Unable to read file metadata"), None)
       ELSE IF meta.v > MAX_FILE_SIZE THEN get_large_file_preview(path, query, mode)
       ELSE IF ~CanRead(path) THEN Preview(Text_raw("Unable to read file"), None)
       ELSE LET lines == NodeOf(path).content
                regex_matcher == IF query # << >> /\ mode = "Contents"
                                 THEN RegexMatcher_new(query) ELSE None
                first_match_index == IF regex_matcher.some
                                     THEN search_path(regex_matcher.v, path) ELSE None
                scroll_to == IF first_match_index.some
                             THEN Some(first_match_index.v % U16) ELSE None
                taken == TakeNumbered(lines, 0, MAX_LINES_TO_FORMAT)
                body == [k \in 1..Len(taken) |->
                           TLine("numbered", "", taken[k].first, taken[k].n,
                                 LineSpans(taken[k].line, query, mode))]
                notice == IF TotalLines(lines) > MAX_LINES_TO_FORMAT
                          THEN << TLine("notice", truncation_notice, 0, 1, << >>) >>
                          ELSE << >>
            IN Preview(body \o notice, scroll_to)

(***************************************************************************)
(* App (src/main.rs).  selected_index is 0-based as in the source;         *)
(* filtered_files[selected_index] of the source is                         *)
(* filtered_files[selected_index + 1] here.                                *)
(*                                                                         *)
(* pc is the position of run_app: "draw" before terminal.draw, "read"      *)
(* before event::read, "exited" after the loop, "panicked" after a panic.  *)
(*                                                                         *)
(* discovery records what the step just taken ran to build the base set:   *)
(* "walk" for the directory walk, "git" for the status command, "none"     *)
(* when it built no base set.                                              *)
(*                                                                         *)
(* available_height is the height of the preview pane inside its borders   *)
(* at the last frame, and scroll the vertical offset given to the preview  *)
(* paragraph of that frame (0 when Paragraph::scroll was not called).      *)
(***************************************************************************)
Queries == UNION {[1..n -> QueryChars] : n \in 0..MaxQueryLen}

\* App::new, with the configuration Config::load found and the version
\* control the process will meet
Init ==
    /\ files = << >>
    /\ filtered_files = << >>
    /\ selected_index = 0
    /\ input = << >>
    /\ search_mode = "Contents"
    /\ file_filter = "All"
    /\ config \in Config_load
    /\ show_help = FALSE
    /\ git \in GitEnvs
    /\ pc = "draw"
    /\ preview = Preview(<< >>, None)
    /\ opened = None
    /\ discovery = "none"
    /\ available_height = 0
    /\ scroll = 0

\* variant: the search filter never looks at the mode
apply_search_modeblind(base, query, mode, sel) ==
    IF query = << >>
    THEN [filtered |-> base, sel |-> sel]
    ELSE LET res == filter_by_contents(base, query)
         IN [filtered |-> res, sel |-> Min(sel, SatSub(Len(res), 1))]

\* the search filter and the clamp of filter_files (main.rs 175-188): the new
\* filtered_files and selected_index
apply_search(base, query, mode, sel) ==
    IF query = << >>
    THEN [filtered |-> base, sel |-> sel]
    ELSE LET res == IF mode = "Filename" THEN filter_by_filename(base, query)
                    ELSE filter_by_contents(base, query)
         IN [filtered |-> res, sel |-> Min(sel, SatSub(Len(res), 1))]

\* App::filter_files, run with the query, mode and file filter the handler
\* has just set
filter_files(query, mode, ff) ==
    IF ff # "All" /\ get_dirty_files_panics(git)
    THEN /\ pc' = "panicked"
         /\ discovery' = "git"
         /\ UNCHANGED <<files, filtered_files, selected_index>>
    ELSE LET base == IF ff = "All" THEN walk_files ELSE get_dirty_files(git)
             r == apply_search(base, query, mode, selected_index)
         IN /\ files' = base
            /\ filtered_files' = r.filtered
            /\ selected_index' = r.sel
            /\ discovery' = IF ff = "All" THEN "walk" ELSE "git"
            /\ pc' = "draw"

\* heights of the preview pane a frame can have
PaneHeights == {10, 1200}

\* Text::height: the number of lines of the text
RECURSIVE Text_height(_)
Text_height(text) ==
    IF text = << >> THEN 0 ELSE Head(text).n + Text_height(Tail(text))

\* the scrolling rules of the draw closure (main.rs 318-336): the offset the
\* preview paragraph is drawn with
scroll_rules(preview_text, scroll_to, height) ==
    IF ~scroll_to.some THEN 0
    ELSE IF scroll_to.v < NO_SCROLL_BELOW THEN 0
    ELSE LET total_lines == Text_height(preview_text) % U16
         IN IF total_lines <= height THEN 0
            ELSE SatSub(scroll_to.v, SCROLL_CONTEXT)

\* terminal.draw: App::get_file_preview indexes filtered_files and builds the
\* preview; either can panic
Draw ==
    /\ pc = "draw"
    /\ IF filtered_files = << >>
       THEN /\ preview' = Preview(Text_raw(""), None)
            /\ \E h \in PaneHeights :
                 /\ available_height' = h
                 /\ scroll' = scroll_rules(preview'.text, preview'.scroll_to, h)
            /\ pc' = "read"
       ELSE IF \/ selected_index >= Len(filtered_files)
               \/ get_file_preview_panics(filtered_files[selected_index + 1],
                                          input, search_mode)
       THEN /\ pc' = "panicked"
            /\ UNCHANGED <<preview, available_height, scroll>>
       ELSE /\ preview' = get_file_preview(filtered_files[selected_index + 1],
                                           input, search_mode)
            /\ \E h \in PaneHeights :
                 /\ available_height' = h
                 /\ scroll' = scroll_rules(preview'.text, preview'.scroll_to, h)
            /\ pc' = "read"
    /\ UNCHANGED <<files, filtered_files, selected_index, input, search_mode,
                   file_filter, config, show_help, git, opened>>
    /\ discovery' = "none"

\* Ctrl+c, Esc
Quit ==
    /\ pc = "read"
    /\ pc' = "exited"
    /\ UNCHANGED <<files, filtered_files, selected_index, input, search_mode,
                   file_filter, config, show_help, git, preview, opened>>
    /\ discovery' = "none"
    /\ UNCHANGED <<available_height, scroll>>

\* Ctrl+n
CtrlN ==
    /\ pc = "read"
    /\ search_mode' = "Filename"
    /\ filter_files(input, "Filename", file_filter)
    /\ UNCHANGED <<input, file_filter, config, show_help, git, preview, opened,
                   available_height, scroll>>

\* Ctrl+f
CtrlF ==
    /\ pc = "read"
    /\ search_mode' = "Contents"
    /\ filter_files(input, "Contents", file_filter)
    /\ UNCHANGED <<input, file_filter, config, show_help, git, preview, opened,
                   available_height, scroll>>

\* Ctrl+m
CtrlM ==
    /\ pc = "read"
    /\ file_filter' = IF file_filter = "ChangedFromDefault" THEN "All"
                      ELSE "ChangedFromDefault"
    /\ filter_files(input, search_mode, file_filter')
    /\ UNCHANGED <<input, search_mode, config, show_help, git, preview, opened,
                   available_height, scroll>>

\* Ctrl+d
CtrlD ==
    /\ pc = "read"
    /\ file_filter' = IF file_filter = "Dirty" THEN "All" ELSE "Dirty"
    /\ filter_files(input, search_mode, file_filter')
    /\ UNCHANGED <<input, search_mode, config, show_help, git, preview, opened,
                   available_height, scroll>>

\* Backspace: the input drops its last character (the cursor is at the end)
Backspace ==
    /\ pc = "read"
    /\ input' = IF input = << >> THEN << >> ELSE SubSeq(input, 1, Len(input) - 1)
    /\ filter_files(input', search_mode, file_filter)
    /\ UNCHANGED <<search_mode, file_filter, config, show_help, git, preview, opened,
                   available_height, scroll>>

\* a character key: the input gains the character
TypeChar(c) ==
    /\ pc = "read"
    /\ Len(input) < MaxQueryLen
    /\ input' = Append(input, c)
    /\ filter_files(input', search_mode, file_filter)
    /\ UNCHANGED <<search_mode, file_filter, config, show_help, git, preview, opened,
                   available_height, scroll>>

Up ==
    /\ pc = "read"
    /\ selected_index' = SatSub(selected_index, 1)
    /\ pc' = "draw"
    /\ UNCHANGED <<files, filtered_files, input, search_mode, file_filter, config,
                   show_help, git, preview, opened>>
    /\ discovery' = "none"
    /\ UNCHANGED <<available_height, scroll>>

Down ==
    /\ pc = "read"
    /\ selected_index' = IF filtered_files # << >>
                         THEN Min(selected_index + 1, Len(filtered_files) - 1)
                         ELSE selected_index
    /\ pc' = "draw"
    /\ UNCHANGED <<files, filtered_files, input, search_mode, file_filter, config,
                   show_help, git, preview, opened>>
    /\ discovery' = "none"
    /\ UNCHANGED <<available_height, scroll>>

\* Enter: execute_command on the selected file, then leave the loop; nothing
\* happens on an empty list
Enter ==
    /\ pc = "read"
    /\ IF filtered_files # << >>
       THEN /\ opened' = Some(filtered_files[selected_index + 1])
            /\ pc' = "exited"
       ELSE /\ pc' = "draw"
            /\ UNCHANGED opened
    /\ UNCHANGED <<files, filtered_files, selected_index, input, search_mode,
                   file_filter, config, show_help, git, preview>>
    /\ discovery' = "none"
    /\ UNCHANGED <<available_height, scroll>>

\* F1, Ctrl+h
ToggleHelp ==
    /\ pc = "read"
    /\ show_help' = ~show_help
    /\ pc' = "draw"
    /\ UNCHANGED <<files, filtered_files, selected_index, input, search_mode,
                   file_filter, config, git, preview, opened>>
    /\ discovery' = "none"
    /\ UNCHANGED <<available_height, scroll>>

\* any other event: a key the dispatch does not bind, a key release, a resize
OtherEvent ==
    /\ pc = "read"
    /\ pc' = "draw"
    /\ UNCHANGED <<files, filtered_files, selected_index, input, search_mode,
                   file_filter, config, show_help, git, preview, opened>>
    /\ discovery' = "none"
    /\ UNCHANGED <<available_height, scroll>>

Next ==
    \/ Draw
    \/ Quit
    \/ CtrlN
    \/ CtrlF
    \/ CtrlM
    \/ CtrlD
    \/ Backspace
    \/ \E c \in QueryChars : TypeChar(c)
    \/ Up
    \/ Down
    \/ Enter
    \/ ToggleHelp
    \/ OtherEvent

Spec == Init /\ [][Next]_vars

(***************************************************************************)
(* Properties.                                                             *)
(***************************************************************************)
Selected == filtered_files[selected_index + 1]

\* the preview on screen was built from the current selection, query and mode
Previewed == pc = "read" /\ filtered_files # << >>

RegexQuery == search_mode = "Contents" /\ input # << >>

\* line i (1-based) of a content
RECURSIVE LineAt(_, _)
LineAt(content, i) ==
    IF i <= Head(content).n THEN Head(content).line
    ELSE LineAt(Tail(content), i - Head(content).n)

\* the number of the first line of a content that holds pat, 0 when none does
RECURSIVE FirstLineWith(_, _, _)
FirstLineWith(content, pat, base) ==
    IF content = << >> THEN 0
    ELSE IF Contains(Head(content).line, pat) THEN base + 1
    ELSE FirstLineWith(Tail(content), pat, base + Head(content).n)

IsText(content) ==
    \A k \in 1..Len(content) : \A p \in 1..Len(content[k].line) : content[k].line[p] # NUL

NumberedRuns(text) == {k \in 1..Len(text) : text[k].kind = "numbered"}

RECURSIVE SumN(_)
SumN(text) == IF text = << >> THEN 0 ELSE Head(text).n + SumN(Tail(text))

\* C1: after every run of the filter the selection index is in range:
\* selected_index < len(filtered_files) when the list is non-empty and
\* selected_index = 0 when it is empty, so that the preview and the open
\* command never index the list out of range.
C1_SelectionInRange ==
    /\ filtered_files # << >> => selected_index < Len(filtered_files)
    /\ filtered_files = << >> => selected_index = 0

InvalidRegexState ==
    /\ pc # "panicked"
    /\ RegexQuery
    /\ ~RegexMatcher_new(input).some

C3_InvalidRegexEmpties ==
    /\ [](InvalidRegexState =>
            /\ filtered_files = << >>
            /\ selected_index = 0
            /\ files = IF file_filter = "All" THEN walk_files ELSE get_dirty_files(git))
    /\ [][(InvalidRegexState /\ pc = "draw") =>
            /\ pc' = "read"
            /\ preview' = Preview(<< >>, None)
            /\ input' = input /\ search_mode' = search_mode /\ files' = files]_vars

C3_Witness ==
    /\ pc = "read"
    /\ RegexQuery
    /\ ~RegexMatcher_new(input).some
    /\ files # << >>
    /\ filtered_files = << >>

\* C4: for a path that does not exist (or whose metadata cannot be read) the
\* preview is exactly one line with the text "Unable to read file", and the
\* scroll target is None, for any query and mode.
C4_MissingFilePlaceholder ==
    (Previewed /\ ~metadata_len(Selected).some) =>
        preview = Preview(<< TLine("raw", "Unable to read file", 0, 1, << >>) >>, None)

\* C5: for a readable text file on the normal path the scroll target is
\* Some(k), k the 1-based number of the first line matching the query, exactly
\* when the mode is Contents, the query is non-empty and compiles and some line
\* matches; otherwise it is None.
NormalPathText(path) ==
    /\ CanRead(path)
    /\ ByteLen(NodeOf(path).content) <= MAX_FILE_SIZE
    /\ IsText(NodeOf(path).content)

C5_ScrollTargetIsFirstMatch ==
    (Previewed /\ NormalPathText(Selected)) =>
        LET k == IF RegexQuery /\ RegexMatcher_new(input).some
                 THEN FirstLineWith(NodeOf(Selected).content, Literals(input), 0)
                 ELSE 0
        IN preview.scroll_to = IF k > 0 THEN Some(k) ELSE None

\* C6: whichever source of the base file set is active, no entry of the base
\* file set is a directory, a binary file or a path matched by an ignore rule.
C6_BaseSetClean ==
    \A k \in 1..Len(files) :
        /\ is_file(files[k])
        /\ ~is_binary_file(files[k])
        /\ ~should_ignore_path(files[k])

\* the handlers that run the filter
FilterRuns ==
    \/ CtrlN
    \/ CtrlF
    \/ CtrlM
    \/ CtrlD
    \/ Backspace
    \/ \E c \in QueryChars : TypeChar(c)

\* the entries the walk is to keep: yielded by the walker (not excluded by a
\* version-control ignore file, spec 4.2), not erroring, regular files, not
\* ignored by the path rules, not binary
RegularTextUnignored(e) ==
    /\ ~e.gitignored
    /\ e.ok
    /\ is_file(e.path)
    /\ ~should_ignore_path(e.path)
    /\ ~is_binary_file(e.path)

\* fs is exactly the paths of the entries of Tree that satisfy want, in the
\* order of Tree
IsWalkOf(fs, want(_)) ==
    LET pos == {k \in 1..Len(Tree) : want(Tree[k])}
    IN /\ Len(fs) = Cardinality(pos)
       /\ \A i \in 1..Len(fs) :
            \E k \in pos : /\ Tree[k].path = fs[i]
                           /\ Cardinality({j \in pos : j < k}) = i - 1

\* C7: every run of the filter under the full-walk source leaves as base file
\* set, in walk order, exactly the regular files of the walk that are neither
\* ignored by the path ignore rules nor binary: the file with a NUL among its
\* first 1024 bytes is left out whatever its extension (img.rs), the file under
\* /node_modules/ is left out, the entry that errors is skipped and the walk
\* goes on to the entries after it (priv.txt is met later and is returned).
C7_WalkYieldedRegularFiles ==
    [][(FilterRuns /\ file_filter' = "All") =>
         /\ IsWalkOf(files', RegularTextUnignored)
         /\ \A i \in 1..Len(files') :
               /\ files'[i] # <<".", "/", "i", "m", "g", ".", "r", "s">>
               /\ files'[i] # <<".", "/", "n", "o", "d", "e", "_", "m", "o", "d", "u", "l", "e", "s", "/", "a", ".", "j", "s">>
               /\ files'[i] # <<".", "/", "d", "e", "n", "i", "e", "d">>
         /\ \E i \in 1..Len(files') : files'[i] = <<".", "/", "p", "r", "i", "v", ".", "t", "x", "t">>]_vars

C7_Witness ==
    /\ file_filter = "All"
    /\ pc = "read"
    /\ Len(files) >= 3
    /\ \E k \in 1..Len(Tree) : Tree[k].ok /\ is_file(Tree[k].path) /\ is_binary_file(Tree[k].path)
    /\ \E k \in 1..Len(Tree) : ~Tree[k].ok
    /\ \E k \in 1..Len(Tree) : Tree[k].ok /\ should_ignore_path(Tree[k].path)
    /\ \E k \in 1..Len(Tree) : Tree[k].gitignored

\* PathIgnoreRules as the configuration delivers them (the rule C8 states): the same
\* two containment tests over the configured lists
is_ignored(cfg, path) ==
    \/ AnyContained(to_lowercase(path), cfg.ignored_dirs)
    \/ AnyContained(to_lowercase(file_name(path)), cfg.ignored_patterns)

\* C8: a path is ignored exactly when its lower-cased string contains one of
\* the ignored-directory markers the configuration delivers, or its lower-cased
\* file name contains one of the ignored filename patterns the configuration
\* delivers; changing the configured lists changes which paths are ignored.
C8_IgnoreFollowsConfig ==
    \A k \in 1..Len(Tree) :
        should_ignore_path(Tree[k].path) = is_ignored(config, Tree[k].path)

LargePreviewed ==
    /\ Previewed
    /\ CanRead(Selected)
    /\ ByteLen(NodeOf(Selected).content) > MAX_FILE_SIZE

\* C9 as stated: on the large-file path, in Contents mode with a compiling
\* query, the first matching streamed line is the scroll target and is the only
\* line rendered as a highlighted whole-line block; every other file line, later
\* matching lines included, is a plain span; no line carries syntax colour.
C9_OnlyFirstMatchHighlighted ==
    (LargePreviewed /\ RegexQuery /\ RegexMatcher_new(input).some) =>
        \A k \in NumberedRuns(preview.text) :
            LET r == preview.text[k]
            IN IF preview.scroll_to.some /\ r.first = preview.scroll_to.v
               THEN r.n = 1 /\ r.spans = << Span(LineAt(NodeOf(Selected).content, r.first), "line_match") >>
               ELSE r.spans = << Span(LineAt(NodeOf(Selected).content, r.first), "raw") >>

\* C9 amended: on the large-file path, in Contents mode with a compiling query,
\* the first matching line among the streamed lines is the scroll target, and
\* every streamed line that matches (the first and the later ones) is rendered
\* as one highlighted whole-line block; every streamed line that does not match
\* is a plain unstyled span, and no line carries syntax-colour spans.
C9_EveryMatchHighlighted ==
    (LargePreviewed /\ RegexQuery /\ RegexMatcher_new(input).some) =>
        LET content == NodeOf(Selected).content
            pat == Literals(input)
            k1 == FirstLineWith(content, pat, 0)
        IN /\ preview.scroll_to = IF k1 > 0 /\ k1 <= MAX_LINES_TO_FORMAT THEN Some(k1) ELSE None
           /\ \A k \in NumberedRuns(preview.text) :
                 LET r == preview.text[k]
                 IN \A i \in {r.first, r.first + r.n - 1} :
                       r.spans = << Span(LineAt(content, i),
                                         IF Contains(LineAt(content, i), pat)
                                         THEN "line_match" ELSE "raw") >>

C9_Witness ==
    /\ LargePreviewed
    /\ RegexQuery
    /\ RegexMatcher_new(input).some
    /\ preview.scroll_to.some
    /\ \E k \in NumberedRuns(preview.text) :
          /\ preview.text[k].first > preview.scroll_to.v
          /\ preview.text[k].spans[1].style = "line_match"
    /\ \E k \in NumberedRuns(preview.text) : preview.text[k].spans[1].style = "raw"

\* C10: a preview never emits more than 1000 lines of the file; whenever the
\* file has more lines than the cap, on the normal path and on the large-file
\* path alike, the result holds a truncation notice; on the normal path the
\* notice is exactly one line after the last numbered line, and it is absent
\* when the file has at most 1000 lines.
C10_TruncationNotice ==
    (Previewed /\ CanRead(Selected)) =>
        LET text == preview.text
            content == NodeOf(Selected).content
            notices == {k \in 1..Len(text) : text[k].kind = "notice"}
            body == SelectSeq(text, LAMBDA l : l.kind = "numbered")
        IN /\ SumN(body) <= MAX_LINES_TO_FORMAT
           /\ TotalLines(content) > MAX_LINES_TO_FORMAT => notices # {}
           /\ ByteLen(content) <= MAX_FILE_SIZE =>
                 IF TotalLines(content) > MAX_LINES_TO_FORMAT
                 THEN notices = {Len(text)} /\ text[Len(text)].n = 1
                 ELSE notices = {}

\* C11: no sequence of input events, whatever the file system and the version
\* control do (command unavailable, a status line shorter than three
\* characters, a match on non-ASCII text, a base set shrinking under the
\* selection), aborts the process: run_app never panics.
C11_NeverAborts == pc # "panicked"

\* C12: the base set is discovered on startup, so every frame drawn, the first
\* included, lists the files discovered for the current file filter; and
\* afterwards a step builds the base set again only when it toggles the file
\* filter, not when it edits the query or switches the search mode.
C12_DiscoveredAtStartupRebuiltOnToggle ==
    [][ /\ (pc' = "read" =>
              files' = IF file_filter' = "All" THEN walk_files
                       ELSE get_dirty_files(git'))
        /\ (discovery' # "none" => file_filter' # file_filter) ]_vars

\* the base set the file filter stands for
BaseOf(ff) == IF ff = "All" THEN walk_files ELSE get_dirty_files(git)

\* the filter of the query and mode over a base set
FilterOf(base, query, mode) ==
    IF query = << >> THEN base
    ELSE IF mode = "Filename" THEN filter_by_filename(base, query)
    ELSE filter_by_contents(base, query)

\* C13: after every step the filtered list is the filter of the current query
\* and mode over the base set held, never one computed from an earlier query
\* or mode; and after every handled key event that changes the query, the
\* mode or the file filter, the base set held is the one of the current file
\* filter.
C13_FilteredIsCurrent ==
    [][ /\ filtered_files' = FilterOf(files', input', search_mode')
        /\ ( /\ \/ input' # input
                 \/ search_mode' # search_mode
                 \/ file_filter' # file_filter
              /\ pc' = "draw"
              => files' = BaseOf(file_filter') ) ]_vars

\* a key event has just switched a non-empty query to Filename mode over the
\* dirty files, and the filter keeps some of them and drops others
C13_Witness ==
    /\ pc = "draw"
    /\ discovery = "git"
    /\ input # << >>
    /\ search_mode = "Filename"
    /\ file_filter = "Dirty"
    /\ filtered_files # << >>
    /\ filtered_files # files

\* C14: for a frame whose preview has scroll target m, no scroll is applied
\* when m is below 15; otherwise the offset applied is m - 10, clamped so that
\* it never goes past the total height of the preview text: it is m - 10
\* whenever a pane of that height starting there still ends inside the text,
\* and it is never more than m - 10 or than the number of lines of the text.
C14_ScrollClamped ==
    (pc = "read" /\ preview.scroll_to.some) =>
        LET m == preview.scroll_to.v
            total == Text_height(preview.text)
        IN IF m < 15 THEN scroll = 0
           ELSE /\ scroll <= m - 10
                /\ scroll <= total
                /\ (m - 10 <= SatSub(total, available_height) => scroll = m - 10)

\* C15: the filter and the preview agree on content matches: for every file
\* the Contents filter keeps for a non-empty compiling query, the preview built
\* for that file with the same query and mode has a scroll target, on the
\* normal path and on the large-file path alike.
C15_KeptFileHasScrollTarget ==
    ( /\ Previewed
      /\ RegexQuery
      /\ RegexMatcher_new(input).some
      /\ filter_by_contents(<<Selected>>, input) = <<Selected>> )
    => preview.scroll_to.some

\* C16: on the normal path the narrowing of the first-match line number to 16
\* bits loses nothing: for every text file of at most 512 KiB (at most 524288
\* lines) and every query that matches one of its lines, the scroll target is
\* the 1-based number of the first matching line, not that number modulo
\* 65536.
C16_NarrowingLosesNothing ==
    ( /\ Previewed
      /\ NormalPathText(Selected)
      /\ TotalLines(NodeOf(Selected).content) <= MAX_FILE_SIZE
      /\ RegexQuery
      /\ RegexMatcher_new(input).some )
    => LET line_num == FirstLineWith(NodeOf(Selected).content, Literals(input), 0)
       IN line_num > 0 => /\ preview.scroll_to.some
                          /\ preview.scroll_to.v = line_num

====
